---- MODULE Spec2Model ----
(***************************************************************************)
(* Kademlia table of active nodes (swarm/network/kademlia/kademlia.go).    *)
(*                                                                         *)
(* The table is an array of buckets indexed by proximity order relative to *)
(* the base address, a proximity-core boundary (proxLimit, proxSize), a    *)
(* count of active peers and the node record database index (kaddb).      *)
(* Every public method runs under k.lock, so each call is one action in    *)
(* Spec, SpecFind, SpecDb, SpecRead and SpecStore; SpecProtocol adds the   *)
(* connection layer that calls On and Off; SpecLock, SpecAtomic and        *)
(* SpecCallback run the methods lock operation by lock operation.          *)
(***************************************************************************)
EXTENDS Integers, Sequences, FiniteSets

(***************************************************************************)
(* KadParams.  MaxProx and BucketSize are adjustable parameters of a table *)
(* instance (KadParams, kademlia.go:54-63); the model checks a small       *)
(* instance.  ProxBinSize keeps its default.                               *)
(***************************************************************************)
MaxProx == 2

BucketSize == 2

ProxBinSize == 2

\* cap of FindClosest when max == 0
maxPeers == 100

\* idle threshold of a replacement, in abstract time units
MaxIdleInterval == 1

(***************************************************************************)
(* Bounds of the model.                                                    *)
(***************************************************************************)
\* count may differ from the number of bucket members by at most MaxDrift
MaxDrift == 1

(***************************************************************************)
(* Addresses: bit strings of AddrBits bits, read as naturals (most         *)
(* significant bit first).                                                 *)
(***************************************************************************)
Addrs == 0 .. 7

RECURSIVE BitLen(_)
BitLen(x) == IF x = 0 THEN 0 ELSE 1 + BitLen(x \div 2)

\* the length of an address in bits
AddrBits == BitLen(7)

\* immutable base address of the table
addr == 0

RECURSIVE Xor(_, _)
Xor(a, b) ==
    IF a = 0 THEN b
    ELSE IF b = 0 THEN a
    ELSE (((a % 2) + (b % 2)) % 2) + 2 * Xor(a \div 2, b \div 2)

\* proximity(one, other): the number of leading bits the two addresses share
proximity(one, other) == AddrBits - BitLen(Xor(one, other))

\* target.ProxCmp(a, b): -1 if a is closer to target than b, 1 if b is
\* closer, 0 if they are equally far (xor distance)
ProxCmp(target, a, b) ==
    LET da == Xor(a, target)
        db == Xor(b, target)
    IN  IF da > db THEN 1 ELSE IF da < db THEN -1 ELSE 0

\* Kademlia.proximityBin
proximityBin(other) ==
    LET ret == proximity(addr, other)
    IN  IF ret > MaxProx THEN MaxProx ELSE ret

(***************************************************************************)
(* Nodes.  A Node is known to the table by its Addr(); the peers that call *)
(* On and Off have an address in each of the bins 0, 1 and 2, two in bin 0.*)
(***************************************************************************)
Addr(node) == node

PeerAddrs == {1, 2, 4, 5}

Nodes == PeerAddrs

\* the idle times On observes: at the threshold, and two above it
IdleVals == {MaxIdleInterval, MaxIdleInterval + 1, MaxIdleInterval + 2}

Bins == 0 .. MaxProx

VARIABLES
    buckets,    \* k.buckets: bin -> sequence of nodes
    proxLimit,  \* k.proxLimit
    proxSize,   \* k.proxSize
    count,      \* k.count
    db,         \* k.db.index: address -> NodeRecord, node = <<>> is nil
    last,       \* the last call: its arguments, what it returned and did
    lock,       \* k.lock: how each caller holds it
    dbLock,     \* k.db.lock: how each caller holds it
    pc,         \* the method each caller is in and its next lock operation
    owed        \* the connection layer: for each address, the peers that
                \* joined and are connected (live) and the peers that On
                \* dropped (dropped), all with their Off still to come

vars == <<buckets, proxLimit, proxSize, count, db, last, lock, dbLock, pc, owed>>

tableVars == <<buckets, proxLimit, proxSize, count, db, last>>

lockVars == <<lock, dbLock, pc>>

(***************************************************************************)
(* The goroutines that call the table's methods at the same time.          *)
(***************************************************************************)
NumProcs == 2

Procs == 1 .. NumProcs

\* a caller that is in no method
Idle == [op |-> "idle", i |-> 0]

RECURSIVE SumLen(_, _)
SumLen(bk, i) == IF i > MaxProx THEN 0 ELSE Len(bk[i]) + SumLen(bk, i + 1)

\* the number of peers in the buckets
Live == SumLen(buckets, 0)

(***************************************************************************)
(* setProxLimit(r, on): adjusts proxLimit and proxSize after an insertion  *)
(* (on) or a removal at bin r.  bk is k.buckets after the change.  The     *)
(* result carries fault = TRUE when the contraction loop would index       *)
(* k.buckets beyond MaxProx (a Go index-out-of-range panic).               *)
(***************************************************************************)
\* Contract with > for >=: it stops one peer early
RECURSIVE ContractLate(_, _, _, _)
ContractLate(bk, pl, ps, curr) ==
    IF ps > ProxBinSize + curr /\ curr > 0
    THEN IF pl + 1 > MaxProx
         THEN [proxLimit |-> pl + 1, proxSize |-> ps - curr, fault |-> TRUE]
         ELSE ContractLate(bk, pl + 1, ps - curr, Len(bk[pl + 1]))
    ELSE [proxLimit |-> pl, proxSize |-> ps, fault |-> FALSE]

\* Contract with no minimum: it gives up the furthest bucket whenever the
\* bucket is not empty
RECURSIVE ContractNoMinimum(_, _, _, _)
ContractNoMinimum(bk, pl, ps, curr) ==
    IF ps >= curr /\ curr > 0
    THEN IF pl + 1 > MaxProx
         THEN [proxLimit |-> pl + 1, proxSize |-> ps - curr, fault |-> TRUE]
         ELSE ContractNoMinimum(bk, pl + 1, ps - curr, Len(bk[pl + 1]))
    ELSE [proxLimit |-> pl, proxSize |-> ps, fault |-> FALSE]

\* Contract that goes past an empty bucket
RECURSIVE ContractPastEmpty(_, _, _, _)
ContractPastEmpty(bk, pl, ps, curr) ==
    IF ps >= ProxBinSize + curr
    THEN IF pl + 1 > MaxProx
         THEN [proxLimit |-> pl + 1, proxSize |-> ps - curr, fault |-> TRUE]
         ELSE ContractPastEmpty(bk, pl + 1, ps - curr, Len(bk[pl + 1]))
    ELSE [proxLimit |-> pl, proxSize |-> ps, fault |-> FALSE]

RECURSIVE Contract(_, _, _, _)
Contract(bk, pl, ps, curr) ==
    IF ps >= ProxBinSize + curr /\ curr > 0
    THEN IF pl + 1 > MaxProx
         THEN [proxLimit |-> pl + 1, proxSize |-> ps - curr, fault |-> TRUE]
         ELSE Contract(bk, pl + 1, ps - curr, Len(bk[pl + 1]))
    ELSE [proxLimit |-> pl, proxSize |-> ps, fault |-> FALSE]

\* Expand that only closes a gap and never refills the core
RECURSIVE ExpandGapOnly(_, _, _, _)
ExpandGapOnly(bk, pl, ps, r) ==
    IF r < pl /\ pl > 0
    THEN ExpandGapOnly(bk, pl - 1, ps + Len(bk[pl - 1]), r)
    ELSE [proxLimit |-> pl, proxSize |-> ps, fault |-> FALSE]

\* Expand that refills the core and does not look at the vacated bin
RECURSIVE ExpandSizeOnly(_, _, _, _)
ExpandSizeOnly(bk, pl, ps, r) ==
    IF ps < ProxBinSize /\ pl > 0
    THEN ExpandSizeOnly(bk, pl - 1, ps + Len(bk[pl - 1]), r)
    ELSE [proxLimit |-> pl, proxSize |-> ps, fault |-> FALSE]

RECURSIVE Expand(_, _, _, _)
Expand(bk, pl, ps, r) ==
    IF (ps < ProxBinSize \/ r < pl) /\ pl > 0
    THEN Expand(bk, pl - 1, ps + Len(bk[pl - 1]), r)
    ELSE [proxLimit |-> pl, proxSize |-> ps, fault |-> FALSE]

\* setProxLimit that returns early for every change below the core, also
\* one that empties its bucket
setProxLimitBelowCore(bk, pl, ps, r, on) ==
    IF r < pl
    THEN [proxLimit |-> pl, proxSize |-> ps, fault |-> FALSE]
    ELSE IF on
         THEN Contract(bk, pl, ps + 1, Len(bk[pl]))
         ELSE Expand(bk, pl, ps - 1, r)

\* setProxLimit that counts a removal and never moves proxLimit down
setProxLimitNoExpand(bk, pl, ps, r, on) ==
    IF r < pl /\ Len(bk[r]) > 0
    THEN [proxLimit |-> pl, proxSize |-> ps, fault |-> FALSE]
    ELSE IF on
         THEN Contract(bk, pl, ps + 1, Len(bk[pl]))
         ELSE [proxLimit |-> pl, proxSize |-> ps - 1, fault |-> FALSE]

\* setProxLimit that takes every removal off proxSize, also one below the core
setProxLimitAlwaysDecrement(bk, pl, ps, r, on) ==
    IF r < pl /\ Len(bk[r]) > 0
    THEN [proxLimit |-> pl, proxSize |-> ps, fault |-> FALSE]
    ELSE IF on
         THEN Contract(bk, pl, ps + 1, Len(bk[pl]))
         ELSE Expand(bk, pl, ps - 1, r)

\* setProxLimit without the early return for a change below the core
setProxLimitNoEarlyReturn(bk, pl, ps, r, on) ==
    IF on
    THEN Contract(bk, pl, ps + 1, Len(bk[pl]))
    ELSE Expand(bk, pl, IF r >= pl THEN ps - 1 ELSE ps, r)

\* setProxLimit that does not take a removal off proxSize
setProxLimitKeepsSize(bk, pl, ps, r, on) ==
    IF r < pl /\ Len(bk[r]) > 0
    THEN [proxLimit |-> pl, proxSize |-> ps, fault |-> FALSE]
    ELSE IF on
         THEN Contract(bk, pl, ps + 1, Len(bk[pl]))
         ELSE Expand(bk, pl, ps, r)

setProxLimit(bk, pl, ps, r, on) ==
    IF r < pl /\ Len(bk[r]) > 0
    THEN [proxLimit |-> pl, proxSize |-> ps, fault |-> FALSE]
    ELSE IF on
         THEN Contract(bk, pl, ps + 1, Len(bk[pl]))
         ELSE Expand(bk, pl, IF r >= pl THEN ps - 1 ELSE ps, r)

(***************************************************************************)
(* KadDb.findOrCreate: the record of the address, created with a nil node  *)
(* when the address is not yet indexed.                                    *)
(***************************************************************************)
findOrCreate(index, a) ==
    IF a \in DOMAIN index
    THEN index
    ELSE [x \in (DOMAIN index) \cup {a} |-> IF x = a THEN [node |-> <<>>] ELSE index[x]]

\* SetRecordNode that deletes the record when its node becomes nil
SetRecordNodeOrDelete(index, a, v) ==
    IF v = <<>>
    THEN [x \in (DOMAIN index) \ {a} |-> index[x]]
    ELSE [index EXCEPT ![a] = [node |-> v]]

\* record.node = v
SetRecordNode(index, a, v) == [index EXCEPT ![a] = [node |-> v]]

(***************************************************************************)
(* On's scan of a full bucket for the member to replace: the first member  *)
(* whose idle time is the largest one above MaxIdleInterval.  idles[i] is  *)
(* time.Since(bucket[i].LastActive()).  pos = 0 stands for replaced = nil. *)
(***************************************************************************)
\* IdleScan that keeps the threshold: the last member above MaxIdleInterval
RECURSIVE IdleScanLast(_, _, _, _)
IdleScanLast(idles, i, idle, pos) ==
    IF i > Len(idles)
    THEN [idle |-> idle, pos |-> pos]
    ELSE IF idles[i] > idle
         THEN IdleScanLast(idles, i + 1, idle, i)
         ELSE IdleScanLast(idles, i + 1, idle, pos)

\* IdleScan with >= for >: a member idle for MaxIdleInterval is taken
RECURSIVE IdleScanAtThreshold(_, _, _, _)
IdleScanAtThreshold(idles, i, idle, pos) ==
    IF i > Len(idles)
    THEN [idle |-> idle, pos |-> pos]
    ELSE IF idles[i] >= idle
         THEN IdleScanAtThreshold(idles, i + 1, idles[i], i)
         ELSE IdleScanAtThreshold(idles, i + 1, idle, pos)

\* IdleScan that stops at the first member above MaxIdleInterval
RECURSIVE IdleScanFirst(_, _, _, _)
IdleScanFirst(idles, i, idle, pos) ==
    IF i > Len(idles)
    THEN [idle |-> idle, pos |-> pos]
    ELSE IF idles[i] > idle
         THEN [idle |-> idles[i], pos |-> i]
         ELSE IdleScanFirst(idles, i + 1, idle, pos)

RECURSIVE IdleScan(_, _, _, _)
IdleScan(idles, i, idle, pos) ==
    IF i > Len(idles)
    THEN [idle |-> idle, pos |-> pos]
    ELSE IF idles[i] > idle
         THEN IdleScan(idles, i + 1, idles[i], i)
         ELSE IdleScan(idles, i + 1, idle, pos)

\* the largest of the idle times
MaxOf(idles) == CHOOSE m \in {idles[i] : i \in DOMAIN idles} :
                    \A i \in DOMAIN idles : idles[i] <= m

\* HasRoom with <= for <
HasRoomAtSize(bucket) == Len(bucket) <= BucketSize

\* len(bucket) < k.BucketSize: the bucket takes one more member
HasRoom(bucket) == Len(bucket) < BucketSize

Init ==
    /\ buckets = [i \in Bins |-> <<>>]
    /\ proxLimit = 0
    /\ proxSize = 0
    /\ count = 0
    /\ db = <<>>
    /\ last = [op |-> "New"]
    /\ lock = [p \in Procs |-> "none"]
    /\ dbLock = [p \in Procs |-> "none"]
    /\ pc = [p \in Procs |-> Idle]
    /\ owed = [a \in PeerAddrs |-> [live |-> 0, dropped |-> 0]]

\* On that appends to a bucket with room before it looks at what the
\* callback returned, and that refuses every peer of a full bucket
OnCallbackAfterInsert(node, cb, idles) ==
    LET index  == proximityBin(Addr(node))
        db1    == findOrCreate(db, Addr(node))
        bucket == buckets[index]
        bk     == [buckets EXCEPT ![index] = Append(bucket, node)]
        lim    == setProxLimit(bk, proxLimit, proxSize, index, TRUE)
    IN  IF HasRoom(bucket)
        THEN /\ buckets' = bk
             /\ proxLimit' = lim.proxLimit
             /\ proxSize' = lim.proxSize
             /\ IF lim.fault
                THEN /\ UNCHANGED <<count>>
                     /\ db' = db1
                     /\ last' = [op |-> "On", err |-> "fault"]
                ELSE IF cb = "err"
                THEN /\ UNCHANGED <<count>>
                     /\ db' = db1
                     /\ last' = [op |-> "On", err |-> "callback"]
                ELSE /\ db' = SetRecordNode(db1, Addr(node), <<node>>)
                     /\ count' = count + 1
                     /\ last' = [op |-> "On", err |-> "nil", replaced |-> <<>>]
        ELSE /\ db' = db1
             /\ last' = [op |-> "On",
                         err |-> IF cb = "err" THEN "callback" ELSE "bucket full",
                         index |-> index, replaced |-> <<>>, maxIdle |-> MaxOf(idles)]
             /\ UNCHANGED <<buckets, proxLimit, proxSize, count>>

(***************************************************************************)
(* On(node, cb): cb is "nil" (no callback), "ok" or "err" (what the        *)
(* callback returns); idles are the idle times of the members of the       *)
(* node's bucket at the time of the call.  addInc is the number of         *)
(* bucketAddIndexCount[index].Inc(1) calls of the On, rmInc in Off the     *)
(* number of bucketRmIndexCount[index].Inc(1) calls.                       *)
(***************************************************************************)
On(node, cb, idles) ==
    LET index  == proximityBin(Addr(node))
        db1    == findOrCreate(db, Addr(node))
        bucket == buckets[index]
    IN  IF cb = "err"
        THEN /\ db' = db1
             /\ last' = [op |-> "On", err |-> "callback", addInc |-> 0]
             /\ UNCHANGED <<buckets, proxLimit, proxSize, count>>
        ELSE IF HasRoom(bucket)
        THEN LET bk  == [buckets EXCEPT ![index] = Append(bucket, node)]
                 lim == setProxLimit(bk, proxLimit, proxSize, index, TRUE)
             IN  /\ buckets' = bk
                 /\ proxLimit' = lim.proxLimit
                 /\ proxSize' = lim.proxSize
                 /\ IF lim.fault
                    THEN /\ UNCHANGED <<count>>
                         /\ db' = db1
                         /\ last' = [op |-> "On", err |-> "fault", addInc |-> 1]
                    ELSE /\ db' = SetRecordNode(db1, Addr(node), <<node>>)
                         /\ count' = count + 1
                         /\ last' = [op |-> "On", err |-> "nil", replaced |-> <<>>,
                                     addInc |-> 1,
                                     raised |-> lim.proxLimit - proxLimit]
        ELSE LET scan == IdleScan(idles, 1, MaxIdleInterval, 0)
             IN  IF scan.pos = 0
                 THEN /\ db' = db1
                      /\ last' = [op |-> "On", err |-> "bucket full", index |-> index,
                                  replaced |-> <<>>, maxIdle |-> MaxOf(idles),
                                  addInc |-> 0]
                      /\ UNCHANGED <<buckets, proxLimit, proxSize, count>>
                 ELSE /\ count + 1 - Live <= MaxDrift
                      /\ buckets' = [buckets EXCEPT ![index][scan.pos] = node]
                      /\ db' = SetRecordNode(db1, Addr(node), <<node>>)
                      /\ count' = count + 1
                      /\ last' = [op |-> "On", err |-> "nil", index |-> index,
                                  replaced |-> <<bucket[scan.pos]>>,
                                  pos |-> scan.pos, idle |-> idles[scan.pos],
                                  maxIdle |-> MaxOf(idles), addInc |-> 0,
                                  node |-> node]
                      /\ UNCHANGED <<proxLimit, proxSize>>

(***************************************************************************)
(* Off(node, cb): removes the first member of the node's bucket that has   *)
(* the node's address, then clears the node of the address's record and    *)
(* decrements count.  With no record for the address, the record is nil    *)
(* and its use faults after the removal.                                   *)
(***************************************************************************)
\* FindAddr that takes the first member, whatever its address
FindAddrFirst(bucket, a, i) == IF i > Len(bucket) THEN 0 ELSE i

RECURSIVE FindAddr(_, _, _)
FindAddr(bucket, a, i) ==
    IF i > Len(bucket) THEN 0
    ELSE IF a = Addr(bucket[i]) THEN i
    ELSE FindAddr(bucket, a, i + 1)

RemoveAt(bucket, i) == SubSeq(bucket, 1, i - 1) \o SubSeq(bucket, i + 1, Len(bucket))

\* the removal loop of Off on the table bks, pl, ps: the position i of the
\* member it removes (0 for none), the buckets after it and what
\* setProxLimit makes of proxLimit and proxSize
OffTable(bks, pl, ps, node) ==
    LET index  == proximityBin(Addr(node))
        bucket == bks[index]
        i      == FindAddr(bucket, Addr(node), 1)
        bk     == IF i = 0 THEN bks ELSE [bks EXCEPT ![index] = RemoveAt(bucket, i)]
        lim    == IF i = 0
                  THEN [proxLimit |-> pl, proxSize |-> ps, fault |-> FALSE]
                  ELSE setProxLimit(bk, pl, ps, index, FALSE)
    IN  [i |-> i, buckets |-> bk, proxLimit |-> lim.proxLimit,
         proxSize |-> lim.proxSize]

Off(node) ==
    LET t == OffTable(buckets, proxLimit, proxSize, node)
        i == t.i
    IN  /\ buckets' = t.buckets
        /\ proxLimit' = t.proxLimit
        /\ proxSize' = t.proxSize
        /\ IF Addr(node) \notin DOMAIN db
           THEN /\ UNCHANGED <<count, db>>
                /\ last' = [op |-> "Off", err |-> "fault", found |-> i > 0,
                            rmInc |-> 1]
           ELSE /\ i = 0 => count - 1 - Live >= -MaxDrift
                /\ db' = SetRecordNode(db, Addr(node), <<>>)
                /\ count' = count - 1
                /\ last' = [op |-> "Off", err |-> "nil", found |-> i > 0,
                            rmInc |-> 1]

\* the idle times On can observe in the node's bucket (read only when it is full)
IdlesOf(node) ==
    IF HasRoom(buckets[proximityBin(Addr(node))])
    THEN {<<>>}
    ELSE [1 .. BucketSize -> IdleVals]

(***************************************************************************)
(* nodesByDistance.push(node, max): h.nodes is a list ordered by distance  *)
(* to h.target.  ix is sort.Search's binary search for the first index     *)
(* (from 0) whose node is not closer to the target than the pushed node.   *)
(***************************************************************************)
RECURSIVE Search(_, _, _, _, _)
Search(nodes, target, node, lo, hi) ==
    IF lo < hi
    THEN LET h == (lo + hi) \div 2
         IN  IF ProxCmp(target, Addr(nodes[h + 1]), Addr(node)) >= 0
             THEN Search(nodes, target, node, lo, h)
             ELSE Search(nodes, target, node, h + 1, hi)
    ELSE lo

\* push that appends whatever max is
pushUnbounded(nodes, target, node, max) ==
    LET ix       == Search(nodes, target, node, 0, Len(nodes))
        appended == Append(nodes, node)
    IN  [i \in 1 .. Len(appended) |->
            IF i < ix + 1 THEN appended[i]
            ELSE IF i = ix + 1 THEN node
            ELSE appended[i - 1]]

\* push that inserts the node one place late
pushLate(nodes, target, node, max) ==
    LET ix       == Search(nodes, target, node, 0, Len(nodes)) + 1
        appended == IF Len(nodes) < max THEN Append(nodes, node) ELSE nodes
    IN  IF ix < Len(appended)
        THEN [i \in 1 .. Len(appended) |->
                 IF i < ix + 1 THEN appended[i]
                 ELSE IF i = ix + 1 THEN node
                 ELSE appended[i - 1]]
        ELSE appended

push(nodes, target, node, max) ==
    LET ix       == Search(nodes, target, node, 0, Len(nodes))
        appended == IF Len(nodes) < max THEN Append(nodes, node) ELSE nodes
    IN  IF ix < Len(appended)
        THEN [i \in 1 .. Len(appended) |->
                 IF i < ix + 1 THEN appended[i]
                 ELSE IF i = ix + 1 THEN node
                 ELSE appended[i - 1]]
        ELSE appended

\* for _, p := range k.buckets[index] { r.push(p, limit) }
RECURSIVE PushBucket(_, _, _, _, _)
PushBucket(nodes, target, bucket, i, limit) ==
    IF i > Len(bucket) THEN nodes
    ELSE PushBucket(push(nodes, target, bucket[i], limit), target, bucket, i + 1, limit)

(***************************************************************************)
(* FindClosest(target, max): the scan from the target's bin up to MaxProx  *)
(* and then from the bin below the target's down to 0.  The result records *)
(* r.nodes, the number n of pushed peers, the bins in the order they were  *)
(* scanned and the step of the scan when the loop ended.                   *)
(***************************************************************************)
\* FindScan that ends as soon as min peers were pushed, turned around or not
RECURSIVE FindScanNoTurn(_, _, _, _, _, _, _, _)
FindScanNoTurn(bk, target, max, index, step, n, nodes, visited) ==
    LET po    == proximityBin(target)
        min   == IF max = 0 THEN 1 ELSE max
        limit == IF max = 0 THEN maxPeers ELSE max
    IN  IF index < 0
        THEN [nodes |-> nodes, n |-> n, visited |-> visited, step |-> step]
        ELSE LET nodes1 == PushBucket(nodes, target, bk[index], 1, limit)
                 n1     == n + Len(bk[index])
                 seen   == Append(visited, index)
             IN  IF n1 >= min
                 THEN [nodes |-> nodes1, n |-> n1, visited |-> seen, step |-> step]
                 ELSE IF index = MaxProx
                      THEN FindScanNoTurn(bk, target, max, po - 1, -1, n1, nodes1, seen)
                      ELSE FindScanNoTurn(bk, target, max, index + step, step, n1, nodes1, seen)

\* FindScan that ends after the turn, or with max = 0, however few peers
\* were pushed
RECURSIVE FindScanAnyCount(_, _, _, _, _, _, _, _)
FindScanAnyCount(bk, target, max, index, step, n, nodes, visited) ==
    LET po    == proximityBin(target)
        limit == IF max = 0 THEN maxPeers ELSE max
    IN  IF index < 0
        THEN [nodes |-> nodes, n |-> n, visited |-> visited, step |-> step]
        ELSE LET nodes1 == PushBucket(nodes, target, bk[index], 1, limit)
                 n1     == n + Len(bk[index])
                 seen   == Append(visited, index)
             IN  IF step < 0 \/ max = 0
                 THEN [nodes |-> nodes1, n |-> n1, visited |-> seen, step |-> step]
                 ELSE IF index = MaxProx
                      THEN FindScanAnyCount(bk, target, max, po - 1, -1, n1, nodes1, seen)
                      ELSE FindScanAnyCount(bk, target, max, index + step, step, n1, nodes1, seen)

\* FindScan that turns at MaxProx without going back to the target's bin
RECURSIVE FindScanTurnsInPlace(_, _, _, _, _, _, _, _)
FindScanTurnsInPlace(bk, target, max, index, step, n, nodes, visited) ==
    LET po    == proximityBin(target)
        min   == IF max = 0 THEN 1 ELSE max
        limit == IF max = 0 THEN maxPeers ELSE max
    IN  IF index < 0
        THEN [nodes |-> nodes, n |-> n, visited |-> visited, step |-> step]
        ELSE LET nodes1 == PushBucket(nodes, target, bk[index], 1, limit)
                 n1     == n + Len(bk[index])
                 seen   == Append(visited, index)
             IN  IF n1 >= min /\ (step < 0 \/ max = 0)
                 THEN [nodes |-> nodes1, n |-> n1, visited |-> seen, step |-> step]
                 ELSE IF index = MaxProx
                      THEN FindScanTurnsInPlace(bk, target, max, index - 1, -1, n1, nodes1, seen)
                      ELSE FindScanTurnsInPlace(bk, target, max, index + step, step, n1, nodes1, seen)

RECURSIVE FindScan(_, _, _, _, _, _, _, _)
FindScan(bk, target, max, index, step, n, nodes, visited) ==
    LET po    == proximityBin(target)
        min   == IF max = 0 THEN 1 ELSE max
        limit == IF max = 0 THEN maxPeers ELSE max
    IN  IF index < 0
        THEN [nodes |-> nodes, n |-> n, visited |-> visited, step |-> step]
        ELSE LET nodes1 == PushBucket(nodes, target, bk[index], 1, limit)
                 n1     == n + Len(bk[index])
                 seen   == Append(visited, index)
             IN  IF n1 >= min /\ (step < 0 \/ max = 0)
                 THEN [nodes |-> nodes1, n |-> n1, visited |-> seen, step |-> step]
                 ELSE IF index = MaxProx
                      THEN FindScan(bk, target, max, po - 1, -1, n1, nodes1, seen)
                      ELSE FindScan(bk, target, max, index + step, step, n1, nodes1, seen)

FindClosest(target, max) ==
    LET r == FindScan(buckets, target, max, proximityBin(target), 1, 0, <<>>, <<>>)
    IN  /\ last' = [op |-> "FindClosest", target |-> target, max |-> max,
                    nodes |-> r.nodes, n |-> r.n, visited |-> r.visited,
                    step |-> r.step]
        /\ UNCHANGED <<buckets, proxLimit, proxSize, count, db>>

\* the values of max FindClosest is called with
Maxes == 0 .. (BucketSize + 1)

\* the calls made one after the other: each runs from k.lock.Lock() to the
\* deferred Unlock() with no other call in progress
Next ==
    \/ \E node \in Nodes, cb \in {"nil", "ok", "err"} :
          \E idles \in IdlesOf(node) : On(node, cb, idles) /\ UNCHANGED <<lockVars, owed>>
    \/ \E node \in Nodes : Off(node) /\ UNCHANGED <<lockVars, owed>>

Spec == Init /\ [][Next]_vars

(***************************************************************************)
(* The table with its lookups.  FindClosest reads k.buckets alone, so the  *)
(* peers here join buckets that have room and leave only while they are    *)
(* members: that reaches every content of the buckets.  A lookup leaves    *)
(* the table as it is, so a lookup that follows a lookup finds what a      *)
(* lookup from the state before them finds.                                *)
(***************************************************************************)
InTable(node) == FindAddr(buckets[proximityBin(Addr(node))], Addr(node), 1) > 0

NextFind ==
    \/ \E node \in Nodes :
          /\ HasRoom(buckets[proximityBin(Addr(node))])
          /\ On(node, "nil", <<>>)
          /\ UNCHANGED <<lockVars, owed>>
    \/ \E node \in Nodes : InTable(node) /\ Off(node) /\ UNCHANGED <<lockVars, owed>>
    \/ \E target \in Addrs, max \in Maxes :
          /\ last.op # "FindClosest"
          /\ FindClosest(target, max)
          /\ UNCHANGED <<lockVars, owed>>

SpecFind == Init /\ [][NextFind]_vars


(***************************************************************************)
(* The methods that read the table.  Count() returns k.count.              *)
(* KeyRange(other) passes k.addr, other and k.proxLimit to the KeyRange    *)
(* function of the address package; last keeps what it read.  Suggest()    *)
(* is k.db.findBest with the lengths of the buckets: a record with no      *)
(* node, from a bin whose bucket has room when there is one, and found =   *)
(* FALSE when every record has a node.                                     *)
(***************************************************************************)
\* Count that takes the count away
CountAndReset ==
    /\ last' = [op |-> "Count", ret |-> count]
    /\ count' = 0
    /\ UNCHANGED <<buckets, proxLimit, proxSize, db>>

Count ==
    /\ last' = [op |-> "Count", ret |-> count]
    /\ UNCHANGED <<buckets, proxLimit, proxSize, count, db>>

KeyRange(other) ==
    /\ last' = [op |-> "KeyRange", other |-> other, proxLimit |-> proxLimit]
    /\ UNCHANGED <<buckets, proxLimit, proxSize, count, db>>

\* the addresses of the records with no node
Candidates(index) == {a \in DOMAIN index : index[a].node = <<>>}

\* what findBest can return; record is <<>> when nothing was found
findBest(index, bk) ==
    LET preferred == {a \in Candidates(index) :
                         Len(bk[proximityBin(a)]) < BucketSize}
    IN  IF preferred # {}
        THEN {[found |-> TRUE, record |-> <<a>>] : a \in preferred}
        ELSE IF Candidates(index) # {}
        THEN {[found |-> TRUE, record |-> <<a>>] : a \in Candidates(index)}
        ELSE {[found |-> FALSE, record |-> <<>>]}

Suggest ==
    /\ \E r \in findBest(db, buckets) :
          last' = [op |-> "Suggest", found |-> r.found, record |-> r.record]
    /\ UNCHANGED <<buckets, proxLimit, proxSize, count, db>>

ReadOps == {"Count", "KeyRange", "Suggest", "FindClosest"}

\* the table of NextFind with its readers: a read leaves the table as it
\* is, so a read that follows a read finds what it finds without it
NextRead ==
    \/ NextFind
    \/ last.op \notin ReadOps /\ Count /\ UNCHANGED <<lockVars, owed>>
    \/ \E other \in Addrs :
          last.op \notin ReadOps /\ KeyRange(other) /\ UNCHANGED <<lockVars, owed>>
    \/ last.op \notin ReadOps /\ Suggest /\ UNCHANGED <<lockVars, owed>>

SpecRead == Init /\ [][NextRead]_vars

(***************************************************************************)
(* The table with the node record database.  Add(nrs) is k.db.add: every   *)
(* record of nrs whose address is not yet indexed is indexed, with no      *)
(* node; the records of the other addresses stay as they are.  DBCount()   *)
(* is k.db.count(), the number of indexed records.                         *)
(***************************************************************************)
dbAdd(index, nrs) ==
    [x \in (DOMAIN index) \cup nrs |->
        IF x \in DOMAIN index THEN index[x] ELSE [node |-> <<>>]]

Add(nrs) ==
    /\ db' = dbAdd(db, nrs)
    /\ last' = [op |-> "Add"]
    /\ UNCHANGED <<buckets, proxLimit, proxSize, count>>

DBCount == Cardinality(DOMAIN db)

\* the slices Add is called with: one record, or a record of every peer
Batches == {{a} : a \in PeerAddrs} \cup {PeerAddrs}

NextDb ==
    \/ \E node \in Nodes, cb \in {"nil", "err"} :
          \E idles \in IdlesOf(node) : On(node, cb, idles) /\ UNCHANGED <<lockVars, owed>>
    \/ \E node \in Nodes : Off(node) /\ UNCHANGED <<lockVars, owed>>
    \/ \E nrs \in Batches : Add(nrs) /\ UNCHANGED <<lockVars, owed>>

SpecDb == Init /\ [][NextDb]_vars

(***************************************************************************)
(* Save(path, cb) and Load(path, cb) hand over to k.db.save and k.db.load. *)
(* The file holds one row for each record, bin after bin: its address, its *)
(* URL and its bin; the node of a record belongs to the running process    *)
(* and is not written.  load rebuilds the registry from the rows, every    *)
(* record without a node, and stops at the row whose callback returns an   *)
(* error, keeping what it has read.  The callbacks leave the records as    *)
(* they are.  last keeps the file that Save wrote for the Load that        *)
(* follows it, and the file that Load read for the Save that follows it.   *)
(***************************************************************************)
\* the URL of the record of address a
Url(a) == <<"enode", a>>

Row(a) == [addr |-> a, url |-> Url(a), po |-> proximityBin(a)]

\* a row that tells whether the record has a node
RowWithNode(index, a) ==
    [addr |-> a, url |-> Url(a), po |-> proximityBin(a),
     live |-> index[a].node # <<>>]

\* the rows of the addresses of set S, lowest address first
RECURSIVE RowsOf(_)
RowsOf(S) ==
    IF S = {} THEN <<>>
    ELSE LET a == CHOOSE x \in S : \A y \in S : x <= y
         IN  <<Row(a)>> \o RowsOf(S \ {a})

RECURSIVE RowsWithNodeOf(_, _)
RowsWithNodeOf(index, S) ==
    IF S = {} THEN <<>>
    ELSE LET a == CHOOSE x \in S : \A y \in S : x <= y
         IN  <<RowWithNode(index, a)>> \o RowsWithNodeOf(index, S \ {a})

\* save that writes the node of a record too
RECURSIVE saveWithNode(_, _)
saveWithNode(index, po) ==
    IF po > MaxProx THEN <<>>
    ELSE RowsWithNodeOf(index, {a \in DOMAIN index : proximityBin(a) = po})
             \o saveWithNode(index, po + 1)

\* the file of the bins po..MaxProx
RECURSIVE save(_, _)
save(index, po) ==
    IF po > MaxProx THEN <<>>
    ELSE RowsOf({a \in DOMAIN index : proximityBin(a) = po})
             \o save(index, po + 1)

\* the registry of the first n rows of the file
load(file, n) ==
    [a \in {file[i].addr : i \in 1 .. n} |-> [node |-> <<>>]]

Save ==
    /\ last' = [op |-> "Save", file |-> save(db, 0),
                reload |-> last.op = "Load" /\ last.err = "nil",
                read |-> IF last.op = "Load" THEN last.file ELSE <<>>]
    /\ UNCHANGED <<buckets, proxLimit, proxSize, count, db>>

Load(n) ==
    /\ last.op = "Save"
    /\ n \in 0 .. Len(last.file)
    /\ db' = load(last.file, n)
    /\ last' = [op |-> "Load", file |-> last.file,
                err |-> IF n < Len(last.file) THEN "err" ELSE "nil"]
    /\ UNCHANGED <<buckets, proxLimit, proxSize, count>>

\* the table between restarts: peers join buckets with room and members
\* leave, discovery adds records, the registry is saved and loaded
NextStore ==
    \/ \E node \in Nodes :
          /\ HasRoom(buckets[proximityBin(Addr(node))])
          /\ On(node, "nil", <<>>)
          /\ UNCHANGED <<lockVars, owed>>
    \/ \E node \in Nodes :
          /\ InTable(node)
          \* a member whose record a Load has dropped leaves count behind
          /\ Addr(node) \in DOMAIN db \/ count - Live < MaxDrift
          /\ Off(node)
          /\ UNCHANGED <<lockVars, owed>>
    \/ \E nrs \in Batches : Add(nrs) /\ UNCHANGED <<lockVars, owed>>
    \/ last.op # "Save" /\ Save /\ UNCHANGED <<lockVars, owed>>
    \/ \E n \in 0 .. Cardinality(PeerAddrs) : Load(n) /\ UNCHANGED <<lockVars, owed>>

SpecStore == Init /\ [][NextStore]_vars

(***************************************************************************)
(* The table under its callers' protocol.  The connection layer calls On   *)
(* once for a peer when its connection is live, and Off once for a peer    *)
(* that joined, when the peer disconnects or after On has dropped it       *)
(* (replaced.Drop() only signals the connection layer, the Off comes       *)
(* later).  Peers are told apart by the layer, not by their address: a     *)
(* new peer may come with the address of a peer seen before.               *)
(***************************************************************************)
\* what the layer owes after an On for a peer of address a that returned
\* err and dropped the peers of the sequence replaced
JoinedOwed(a, err, replaced) ==
    IF err # "nil" THEN owed
    ELSE LET o == [owed EXCEPT ![a].live = @ + 1]
         IN  IF replaced = <<>> THEN o
             ELSE [o EXCEPT ![Addr(replaced[1])].live = @ - 1,
                            ![Addr(replaced[1])].dropped = @ + 1]

\* a peer joins
Join(node, idles) ==
    /\ On(node, "nil", idles)
    /\ owed' = JoinedOwed(Addr(node), last'.err,
                          IF last'.err = "nil" THEN last'.replaced ELSE <<>>)

\* a connected peer that joined disconnects
Disconnect(node) ==
    /\ owed[Addr(node)].live > 0
    /\ Off(node)
    /\ owed' = [owed EXCEPT ![Addr(node)].live = @ - 1]

\* the Off of a peer that On has dropped
Dropped(node) ==
    /\ owed[Addr(node)].dropped > 0
    /\ Off(node)
    /\ owed' = [owed EXCEPT ![Addr(node)].dropped = @ - 1]

NextProtocol ==
    \/ \E node \in Nodes :
          \E idles \in IdlesOf(node) : Join(node, idles) /\ UNCHANGED lockVars
    \/ \E node \in Nodes : Disconnect(node) /\ UNCHANGED lockVars
    \/ \E node \in Nodes : Dropped(node) /\ UNCHANGED lockVars

SpecProtocol == Init /\ [][NextProtocol]_vars

(***************************************************************************)
(* The locks.  A method is the sequence of its operations on k.lock ("k")  *)
(* and k.db.lock ("db") and of its accesses to k.db.index, in program      *)
(* order; a deferred unlock runs at the return, the last deferred first.   *)
(* What the methods do to the table under the locks is in On, Off and      *)
(* FindClosest above; here the table stays as New made it.                 *)
(***************************************************************************)
Instr(do, on) == [do |-> do, on |-> on]

\* String that takes k.db.lock before k.lock
StringLocksRegistryFirst ==
    <<Instr("RLock", "db"), Instr("RLock", "k"), Instr("index", "read"),
      Instr("RUnlock", "k"), Instr("RUnlock", "db")>>

\* String(): both read locks, then len(k.db.index)
StringLocks ==
    <<Instr("RLock", "k"), Instr("RLock", "db"), Instr("index", "read"),
      Instr("RUnlock", "db"), Instr("RUnlock", "k")>>

\* KadDb.findOrCreate and KadDb.add: the registry lock, exclusively
findOrCreateLocks ==
    <<Instr("Lock", "db"), Instr("index", "write"), Instr("Unlock", "db")>>

dbAddLocks ==
    <<Instr("Lock", "db"), Instr("index", "write"), Instr("Unlock", "db")>>

\* KadDb.findBest: the registry lock, shared
findBestLocks == <<Instr("RLock", "db"), Instr("RUnlock", "db")>>

\* On(): fmt.Sprintf("%v", k) calls k.String() before k.lock.Lock()
OnLocks ==
    StringLocks \o <<Instr("Lock", "k")>> \o findOrCreateLocks
        \o <<Instr("Unlock", "k")>>

\* Off(): record := k.db.index[node.Addr()] under k.lock alone
OffLocks == <<Instr("Lock", "k"), Instr("index", "read"), Instr("Unlock", "k")>>

CountLocks == <<Instr("Lock", "k"), Instr("Unlock", "k")>>

FindClosestLocks == <<Instr("Lock", "k"), Instr("Unlock", "k")>>

SuggestLocks ==
    <<Instr("RLock", "k")>> \o findBestLocks \o <<Instr("RUnlock", "k")>>

KeyRangeLocks == <<Instr("RLock", "k"), Instr("RUnlock", "k")>>

\* Add(): k.db.add with no table lock
AddLocks == dbAddLocks

Ops == {"On", "Off", "Count", "FindClosest", "Suggest", "KeyRange", "Add", "String"}

Locks(op) ==
    CASE op = "On"          -> OnLocks
      [] op = "Off"         -> OffLocks
      [] op = "Count"       -> CountLocks
      [] op = "FindClosest" -> FindClosestLocks
      [] op = "Suggest"     -> SuggestLocks
      [] op = "KeyRange"    -> KeyRangeLocks
      [] op = "Add"         -> AddLocks
      [] op = "String"      -> StringLocks

(***************************************************************************)
(* sync.RWMutex.  A caller holds a lock as "r" (RLock), as "w" (Lock), or  *)
(* as "wait": its Lock() has announced the writer and waits for the        *)
(* readers that hold the lock to leave.  RLock() and Lock() block while a  *)
(* writer holds the lock or waits for it.                                  *)
(***************************************************************************)
NoWriter(l) == \A q \in Procs : l[q] \notin {"wait", "w"}

NoReader(l) == \A q \in Procs : l[q] # "r"

LockOf(on) == IF on = "k" THEN lock ELSE dbLock

SetLock(on, l) ==
    IF on = "k"
    THEN lock' = l /\ UNCHANGED dbLock
    ELSE dbLock' = l /\ UNCHANGED lock

Busy(p) == pc[p].op # "idle"

\* the operation the caller is at
Cur(p) == Locks(pc[p].op)[pc[p].i]

\* the caller moves to its next operation, or returns after the last one
Advance(p) ==
    pc' = [pc EXCEPT ![p] = IF pc[p].i = Len(Locks(pc[p].op))
                            THEN Idle
                            ELSE [op |-> pc[p].op, i |-> pc[p].i + 1]]

Call(p, op) ==
    /\ ~Busy(p)
    /\ pc' = [pc EXCEPT ![p] = [op |-> op, i |-> 1]]
    /\ UNCHANGED <<lock, dbLock>>
    /\ UNCHANGED <<tableVars, owed>>

DoLock(p) ==
    /\ Busy(p)
    /\ Cur(p).do = "Lock"
    /\ LET on == Cur(p).on
           l  == LockOf(on)
       IN  IF l[p] = "wait"
           THEN /\ NoReader(l)
                /\ SetLock(on, [l EXCEPT ![p] = "w"])
                /\ Advance(p)
           ELSE /\ l[p] = "none"
                /\ NoWriter(l)
                /\ IF NoReader(l)
                   THEN SetLock(on, [l EXCEPT ![p] = "w"]) /\ Advance(p)
                   ELSE SetLock(on, [l EXCEPT ![p] = "wait"]) /\ UNCHANGED pc

DoRLock(p) ==
    /\ Busy(p)
    /\ Cur(p).do = "RLock"
    /\ LET on == Cur(p).on
           l  == LockOf(on)
       IN  /\ l[p] = "none"
           /\ NoWriter(l)
           /\ SetLock(on, [l EXCEPT ![p] = "r"])
    /\ Advance(p)

DoUnlock(p) ==
    /\ Busy(p)
    /\ Cur(p).do \in {"Unlock", "RUnlock"}
    /\ SetLock(Cur(p).on, [LockOf(Cur(p).on) EXCEPT ![p] = "none"])
    /\ Advance(p)

\* the read or the write of k.db.index
DoIndex(p) ==
    /\ Busy(p)
    /\ Cur(p).do = "index"
    /\ UNCHANGED <<lock, dbLock>>
    /\ Advance(p)

Exec(p) ==
    /\ DoLock(p) \/ DoRLock(p) \/ DoUnlock(p) \/ DoIndex(p)
    /\ UNCHANGED <<tableVars, owed>>

NextLock ==
    \/ \E p \in Procs, op \in Ops : Call(p, op)
    \/ \E p \in Procs : Exec(p)

\* a caller that can take its next step infinitely often takes it: the Go
\* scheduler runs every goroutine and a sync.Mutex hands the lock to a
\* waiter that has waited long
SpecLock == Init /\ [][NextLock]_vars /\ \A p \in Procs : SF_vars(Exec(p))

(***************************************************************************)
(* On and Off statement by statement, with the readers of the table.  A    *)
(* caller is idle or holds k.lock: it enters a method by taking the lock   *)
(* the method takes.  On and Off then write the bucket (pc i = 1), run     *)
(* setProxLimit (i = 2) and write the record and the count (i = 3) before  *)
(* the deferred Unlock.  The peers follow the protocol: On for a peer that *)
(* is in no bucket, with no callback, and Off for a member.                *)
(***************************************************************************)
Readers == {"Count", "FindClosest", "KeyRange", "Suggest"}

\* a reader that takes no lock
ModeUnlocked(op) == "none"

\* how the method takes k.lock: its first lock operation
Mode(op) == IF Locks(op)[1].do = "Lock" THEN "w" ELSE "r"

\* k.lock can be taken in the mode
Free(mode) ==
    CASE mode = "w" -> \A q \in Procs : lock[q] = "none"
      [] mode = "r" -> \A q \in Procs : lock[q] # "w"
      [] OTHER      -> TRUE

At(p, op, i) == pc[p].op = op /\ pc[p].i = i

Goto(p, i) == pc' = [pc EXCEPT ![p] = [pc[p] EXCEPT !.i = i]]

\* the deferred Unlock or RUnlock and the return
Leave(p) ==
    /\ lock' = [lock EXCEPT ![p] = "none"]
    /\ pc' = [pc EXCEPT ![p] = Idle]

\* the callback of an On: none given, one that returns nil, one that
\* returns an error
Callbacks == {"none", "nil", "err"}

\* OnBegin that goes on to the bucket without the callback
OnBeginSkipsCallback(p, node, cb) ==
    /\ ~Busy(p)
    /\ ~InTable(node)
    /\ Free("w")
    /\ lock' = [lock EXCEPT ![p] = "w"]
    /\ pc' = [pc EXCEPT ![p] = [op |-> "On", i |-> 1, node |-> node,
                                cb |-> cb, calls |-> 0, saw |-> <<>>]]
    /\ db' = findOrCreate(db, Addr(node))
    /\ UNCHANGED <<buckets, proxLimit, proxSize, count, last, dbLock, owed>>

\* k.lock.Lock(); record := k.db.findOrCreate(index, node.Addr(), node.URL())
\* calls counts the invocations of the callback in this On, saw is the node
\* of the record that the callback was handed
OnBegin(p, node, cb) ==
    /\ ~Busy(p)
    /\ ~InTable(node)
    /\ Free("w")
    /\ lock' = [lock EXCEPT ![p] = "w"]
    /\ pc' = [pc EXCEPT ![p] = [op |-> "On", i |-> 0, node |-> node,
                                cb |-> cb, calls |-> 0, saw |-> <<>>]]
    /\ db' = findOrCreate(db, Addr(node))
    /\ UNCHANGED <<buckets, proxLimit, proxSize, count, last, dbLock, owed>>

\* if cb != nil { err = cb(record, node); if err != nil { return ... } }
OnCallback(p) ==
    /\ At(p, "On", 0)
    /\ IF pc[p].cb = "none"
       THEN Goto(p, 1) /\ UNCHANGED <<lock, last>>
       ELSE IF pc[p].cb = "err"
       THEN /\ Leave(p)
            /\ last' = [op |-> "On", err |-> "callback", cb |-> pc[p].cb,
                        node |-> pc[p].node, cbCalls |-> pc[p].calls + 1,
                        cbSaw |-> db[Addr(pc[p].node)].node]
       ELSE /\ pc' = [pc EXCEPT ![p] = [pc[p] EXCEPT !.i = 1, !.calls = @ + 1,
                                                     !.saw = db[Addr(pc[p].node)].node]]
            /\ UNCHANGED <<lock, last>>
    /\ UNCHANGED <<buckets, proxLimit, proxSize, count, db, dbLock, owed>>

\* k.buckets[index] = append(bucket, node), or the return of a full bucket
OnBucket(p) ==
    /\ At(p, "On", 1)
    /\ LET node   == pc[p].node
           index  == proximityBin(Addr(node))
           bucket == buckets[index]
       IN  IF HasRoom(bucket)
           THEN /\ buckets' = [buckets EXCEPT ![index] = Append(bucket, node)]
                /\ Goto(p, 2)
                /\ UNCHANGED <<lock, last>>
           ELSE /\ Leave(p)
                /\ last' = [op |-> "On", err |-> "bucket full", index |-> index,
                            replaced |-> <<>>, maxIdle |-> MaxIdleInterval,
                            node |-> node, cb |-> pc[p].cb,
                            cbCalls |-> pc[p].calls, cbSaw |-> pc[p].saw]
                /\ UNCHANGED buckets
    /\ UNCHANGED <<proxLimit, proxSize, count, db, dbLock, owed>>

\* k.setProxLimit(index, true)
OnLimit(p) ==
    /\ At(p, "On", 2)
    /\ LET lim == setProxLimit(buckets, proxLimit, proxSize,
                               proximityBin(Addr(pc[p].node)), TRUE)
       IN  /\ proxLimit' = lim.proxLimit
           /\ proxSize' = lim.proxSize
    /\ Goto(p, 3)
    /\ UNCHANGED <<buckets, count, db, last, lock, dbLock, owed>>

\* record.node = node; k.count++; return nil
OnEnd(p) ==
    /\ At(p, "On", 3)
    /\ db' = SetRecordNode(db, Addr(pc[p].node), <<pc[p].node>>)
    /\ count' = count + 1
    /\ last' = [op |-> "On", err |-> "nil", replaced |-> <<>>,
                node |-> pc[p].node, cb |-> pc[p].cb,
                cbCalls |-> pc[p].calls, cbSaw |-> pc[p].saw]
    /\ Leave(p)
    /\ UNCHANGED <<buckets, proxLimit, proxSize, dbLock, owed>>

\* the callback of an Off: none given, or one
OffCallbacks == {"none", "given"}

\* OffBegin that goes to the callback before the removal
OffBeginCallbackFirst(p, node, cb) ==
    /\ ~Busy(p)
    /\ InTable(node) \/ Addr(node) \notin DOMAIN db
    /\ Free("w")
    /\ lock' = [lock EXCEPT ![p] = "w"]
    /\ pc' = [pc EXCEPT ![p] = [op |-> "Off", i |-> 3, node |-> node,
                                found |-> FALSE, cb |-> cb, calls |-> 0,
                                got |-> <<>>]]
    /\ UNCHANGED <<tableVars, dbLock, owed>>

\* k.lock.Lock(), for a member or for an address that has no record.
\* calls counts the invocations of the callback in this Off, got is the
\* node that the callback was handed
OffBegin(p, node, cb) ==
    /\ ~Busy(p)
    /\ InTable(node) \/ Addr(node) \notin DOMAIN db
    /\ Free("w")
    /\ lock' = [lock EXCEPT ![p] = "w"]
    /\ pc' = [pc EXCEPT ![p] = [op |-> "Off", i |-> 1, node |-> node,
                                found |-> FALSE, cb |-> cb, calls |-> 0,
                                got |-> <<>>]]
    /\ UNCHANGED <<tableVars, dbLock, owed>>

\* k.buckets[index] = append(bucket[:i], bucket[(i+1):]...) for the first
\* member with the address; with no such member the loop ends and
\* setProxLimit is not called
OffBucket(p) ==
    /\ At(p, "Off", 1)
    /\ LET index  == proximityBin(Addr(pc[p].node))
           bucket == buckets[index]
           i      == FindAddr(bucket, Addr(pc[p].node), 1)
       IN  IF i = 0
           THEN /\ UNCHANGED buckets
                /\ pc' = [pc EXCEPT ![p] = [pc[p] EXCEPT !.i = 3, !.found = FALSE]]
           ELSE /\ buckets' = [buckets EXCEPT ![index] = RemoveAt(bucket, i)]
                /\ pc' = [pc EXCEPT ![p] = [pc[p] EXCEPT !.i = 2, !.found = TRUE]]
    /\ UNCHANGED <<proxLimit, proxSize, count, db, last, lock, dbLock, owed>>

\* k.setProxLimit(index, false)
OffLimit(p) ==
    /\ At(p, "Off", 2)
    /\ LET lim == setProxLimit(buckets, proxLimit, proxSize,
                               proximityBin(Addr(pc[p].node)), FALSE)
       IN  /\ proxLimit' = lim.proxLimit
           /\ proxSize' = lim.proxSize
    /\ Goto(p, 3)
    /\ UNCHANGED <<buckets, count, db, last, lock, dbLock, owed>>

\* record := k.db.index[node.Addr()]; if cb != nil { cb(record, record.node) }
\* With a callback and no record, record.node faults before the call.
OffCallback(p) ==
    /\ At(p, "Off", 3)
    /\ IF pc[p].cb = "none"
       THEN Goto(p, 4) /\ UNCHANGED <<lock, last>>
       ELSE IF Addr(pc[p].node) \notin DOMAIN db
       THEN /\ Leave(p)
            /\ last' = [op |-> "Off", err |-> "fault", found |-> pc[p].found,
                        node |-> pc[p].node, cb |-> pc[p].cb,
                        cbCalls |-> pc[p].calls, cbGot |-> pc[p].got]
       ELSE /\ pc' = [pc EXCEPT ![p] = [pc[p] EXCEPT !.i = 4, !.calls = @ + 1,
                                                     !.got = db[Addr(pc[p].node)].node]]
            /\ UNCHANGED <<lock, last>>
    /\ UNCHANGED <<buckets, proxLimit, proxSize, count, db, dbLock, owed>>

\* what Off leaves in last at its return
OffReturn(p, err) ==
    [op |-> "Off", err |-> err, found |-> pc[p].found, node |-> pc[p].node,
     cb |-> pc[p].cb, cbCalls |-> pc[p].calls, cbGot |-> pc[p].got]

\* OffEnd that decrements count before it uses the record
OffEndCountFirst(p) ==
    /\ At(p, "Off", 4)
    /\ count' = count - 1
    /\ IF Addr(pc[p].node) \in DOMAIN db
       THEN /\ db' = SetRecordNode(db, Addr(pc[p].node), <<>>)
            /\ last' = OffReturn(p, "nil")
       ELSE /\ UNCHANGED db
            /\ last' = OffReturn(p, "fault")
    /\ Leave(p)
    /\ UNCHANGED <<buckets, proxLimit, proxSize, dbLock, owed>>

\* record.node = nil; k.count--; return.  With no record for the address
\* record is nil and record.node = nil faults; the deferred k.lock.Unlock()
\* runs as the fault unwinds Off.
OffEnd(p) ==
    /\ At(p, "Off", 4)
    /\ IF Addr(pc[p].node) \in DOMAIN db
       THEN /\ db' = SetRecordNode(db, Addr(pc[p].node), <<>>)
            /\ count' = count - 1
            /\ last' = OffReturn(p, "nil")
       ELSE /\ UNCHANGED <<db, count>>
            /\ last' = OffReturn(p, "fault")
    /\ Leave(p)
    /\ UNCHANGED <<buckets, proxLimit, proxSize, dbLock, owed>>

\* a reader takes k.lock and reads the table until it returns
ReadBegin(p, op) ==
    /\ ~Busy(p)
    /\ Free(Mode(op))
    /\ lock' = [lock EXCEPT ![p] = Mode(op)]
    /\ pc' = [pc EXCEPT ![p] = [op |-> op, i |-> 1]]
    /\ UNCHANGED <<tableVars, dbLock, owed>>

ReadEnd(p) ==
    /\ pc[p].op \in Readers
    /\ Leave(p)
    /\ UNCHANGED <<tableVars, dbLock, owed>>

NextAtomic ==
    \/ \E p \in Procs, node \in Nodes, cb \in Callbacks : OnBegin(p, node, cb)
    \/ \E p \in Procs : OnCallback(p) \/ OnBucket(p) \/ OnLimit(p) \/ OnEnd(p)
    \/ \E p \in Procs, node \in Nodes, cb \in OffCallbacks : OffBegin(p, node, cb)
    \/ \E p \in Procs : OffBucket(p) \/ OffLimit(p) \/ OffCallback(p) \/ OffEnd(p)
    \/ \E p \in Procs, op \in Readers : ReadBegin(p, op)
    \/ \E p \in Procs : ReadEnd(p)

SpecAtomic == Init /\ [][NextAtomic]_vars

\* two peers of bin 1, and of bin 0 one peer more than a bucket can hold
CallbackNodes == {2, 3} \cup (4 .. 4 + BucketSize)

\* one caller at a time, with and without callbacks, on a bucket that fills
NextCallback ==
    \/ \E node \in CallbackNodes, cb \in Callbacks : OnBegin(1, node, cb)
    \/ OnCallback(1) \/ OnBucket(1) \/ OnLimit(1) \/ OnEnd(1)
    \/ \E node \in CallbackNodes, cb \in OffCallbacks : OffBegin(1, node, cb)
    \/ OffBucket(1) \/ OffLimit(1) \/ OffCallback(1) \/ OffEnd(1)

SpecCallback == Init /\ [][NextCallback]_vars

(***************************************************************************)
(* Properties of the table.                                                *)
(***************************************************************************)
\* the number of peers in the buckets i..MaxProx
CoreLen(i) == SumLen(buckets, i)

\* C1 (no-gap invariant): in every state reached by On and Off calls, every
\* bucket with an index strictly less than proxLimit is non-empty.
C1_NoGap == \A i \in Bins : i < proxLimit => Len(buckets[i]) > 0

\* a removal has left the core boundary above bin 1
C1_Witness == last.op = "Off" /\ last.found /\ proxLimit > 1

\* C2 (core-size invariant): in every state reached by On and Off calls, if
\* proxLimit > 0 then the buckets proxLimit..MaxProx hold at least ProxBinSize
\* peers.
C2_CoreSize == proxLimit > 0 => CoreLen(proxLimit) >= ProxBinSize

\* a removal from the core has left the core with exactly ProxBinSize peers
C2_Witness ==
    /\ last.op = "Off" /\ last.found
    /\ proxLimit > 0
    /\ CoreLen(proxLimit) = ProxBinSize

\* C3 (count consistency): after every completed On or Off, a replacing On
\* included, count equals the sum of the lengths of all buckets.
C3_CountConsistency == count = Live

\* C4 (capacity bound): in every reachable state no bucket holds more than
\* BucketSize peers.
C4_Capacity == \A i \in Bins : Len(buckets[i]) <= BucketSize

\* a peer has just replaced a member of a full bucket
C4_Witness ==
    /\ last.op = "On" /\ last.err = "nil" /\ last.replaced # <<>>
    /\ \E i \in Bins : Len(buckets[i]) = BucketSize

\* C5: Off for a peer that is in no bucket does not change count.
C5_OffAbsentKeepsCount ==
    [][(last'.op = "Off" /\ ~last'.found) => count' = count]_vars

\* the address of the node is the address of no member of any bucket
Absent(node) ==
    \A i \in Bins : \A j \in DOMAIN buckets[i] : Addr(buckets[i][j]) # Addr(node)

\* C6: Off for a peer whose address matches no bucket member leaves every
\* bucket, proxLimit and proxSize unchanged.
C6_OffAbsentFrame ==
    [][(/\ last'.op = "Off"
        /\ \E node \in Nodes : Absent(node) /\ Off(node))
          => UNCHANGED <<buckets, proxLimit, proxSize>>]_vars

\* Off has returned for a peer that matched no member of a table with a core
C6_Witness ==
    /\ last.op = "Off" /\ ~last.found /\ last.err = "nil"
    /\ proxLimit > 0

(***************************************************************************)
(* Properties of FindClosest.                                              *)
(***************************************************************************)
\* the true distance of an address to the target
Dist(a, target) == Xor(a, target)

RECURSIVE Flatten(_, _)
Flatten(bk, i) == IF i > MaxProx THEN <<>> ELSE bk[i] \o Flatten(bk, i + 1)

\* all peers of the table
AllPeers == Flatten(buckets, 0)

Occ(seq, x) == Cardinality({i \in DOMAIN seq : seq[i] = x})

MinOf(a, b) == IF a < b THEN a ELSE b

\* nodes are k peers of the table, none farther from the target than a peer
\* of the table that is not among them
IsClosest(nodes, target, k) ==
    /\ Len(nodes) = k
    /\ \A x \in Nodes : Occ(nodes, x) <= Occ(AllPeers, x)
    /\ \A x \in Nodes : Occ(nodes, x) < Occ(AllPeers, x) =>
          \A i \in DOMAIN nodes : Dist(Addr(nodes[i]), target) <= Dist(Addr(x), target)

C8_Sorted ==
    last.op = "FindClosest" =>
        \A i, j \in DOMAIN last.nodes :
            i < j => Dist(Addr(last.nodes[i]), last.target)
                        <= Dist(Addr(last.nodes[j]), last.target)

\* the place of a bin in the order of the scan
VisitPos(visited, b) == CHOOSE k \in DOMAIN visited : visited[k] = b

\* a peer of a bin scanned later stands before a peer of a bin scanned earlier
C8_Witness ==
    /\ last.op = "FindClosest"
    /\ \E i, j \in DOMAIN last.nodes :
          /\ i < j
          /\ VisitPos(last.visited, proximityBin(Addr(last.nodes[i])))
                > VisitPos(last.visited, proximityBin(Addr(last.nodes[j])))

\* C9: the sequence FindClosest returns is never longer than max when
\* max > 0, and never longer than maxPeers when max = 0.
C9_Length ==
    last.op = "FindClosest" =>
        Len(last.nodes) <= (IF last.max > 0 THEN last.max ELSE maxPeers)

\* more peers were pushed than max, and max of them are returned
C9_Witness ==
    /\ last.op = "FindClosest" /\ last.max > 0
    /\ last.n > last.max
    /\ Len(last.nodes) = last.max

(***************************************************************************)
(* Properties of the replacement of an idle member.                        *)
(***************************************************************************)
\* the last call was an On that found its bucket full
FullOn ==
    /\ last.op = "On"
    /\ \/ last.err = "bucket full"
       \/ last.err = "nil" /\ last.replaced # <<>>

\* On has replaced the member with the largest idle time, and its bucket
\* holds BucketSize members
Evicted ==
    /\ last.err = "nil"
    /\ last.idle = last.maxIdle
    /\ Len(buckets[last.index]) = BucketSize

C12_CallbackErrorFrame ==
    [][(last'.op = "On" /\ last'.err = "callback") =>
          /\ UNCHANGED <<buckets, count, proxLimit, proxSize>>
          /\ \E a \in PeerAddrs :
                /\ DOMAIN db' = (DOMAIN db) \cup {a}
                /\ \A x \in DOMAIN db : db'[x].node = db[x].node
                /\ a \notin DOMAIN db => db'[a].node = <<>>]_vars

\* the callback refused a peer while the table had a core above bin 0; the
\* registry holds a record with no node for an address that is in no bucket
C12_Witness ==
    /\ last.op = "On" /\ last.err = "callback"
    /\ proxLimit > 0
    /\ \E a \in DOMAIN db : db[a].node = <<>> /\ Absent(a)

\* C13: the core is minimal: bucket proxLimit is empty, or the buckets above
\* proxLimit hold fewer than ProxBinSize peers.
C13_CoreMinimal ==
    \/ Len(buckets[proxLimit]) = 0
    \/ CoreLen(proxLimit + 1) < ProxBinSize

\* an On has moved proxLimit up to a non-empty bucket
C13_Witness ==
    /\ last.op = "On" /\ last.err = "nil"
    /\ proxLimit > 0
    /\ Len(buckets[proxLimit]) > 0
    /\ CoreLen(proxLimit + 1) < ProxBinSize

\* C14: a table that holds fewer than ProxBinSize peers has proxLimit 0.
C14_FewPeersNoCore == Live < ProxBinSize => proxLimit = 0

\* a single peer has joined the empty table at a bin between 0 and MaxProx
C14_Witness ==
    /\ last.op = "On" /\ last.err = "nil"
    /\ Live = 1
    /\ \E i \in Bins : 0 < i /\ i < MaxProx /\ Len(buckets[i]) = 1
    /\ proxLimit = 0

(***************************************************************************)
(* Properties of the locking.                                              *)
(***************************************************************************)
\* C15: Count and FindClosest hold k.lock in shared mode.
C15_ReadersShareLock ==
    \A p \in Procs :
        (pc[p].op \in {"Count", "FindClosest"} /\ lock[p] # "none") => lock[p] = "r"

\* C16: a caller that reads or writes k.db.index holds k.db.lock.
C16_IndexUnderRegistryLock ==
    \A p \in Procs :
        (Busy(p) /\ Cur(p).do = "index") => dbLock[p] \in {"r", "w"}

\* no caller that holds k.db.lock is at a Lock or RLock of k.lock
NoInversion ==
    \A p \in Procs :
        (Busy(p) /\ dbLock[p] # "none") =>
            ~(Cur(p).on = "k" /\ Cur(p).do \in {"Lock", "RLock"})

\* while a call is in progress some caller can take a step
NotStuck == (\E p \in Procs : Busy(p)) => \E p \in Procs : ENABLED Exec(p)

\* C17: k.lock is never requested under k.db.lock, no state of concurrent
\* On, Off, Count, FindClosest, Suggest, KeyRange, Add and String calls is a
\* deadlock, and every call returns.
C17_LockOrderNoDeadlock ==
    /\ [](NoInversion /\ NotStuck)
    /\ \A p \in Procs : Busy(p) ~> ~Busy(p)

\* a caller holds k.lock and k.db.lock exclusively while another caller
\* waits at k.lock
C17_Witness ==
    \E p, q \in Procs :
        /\ lock[p] = "w" /\ dbLock[p] = "w"
        /\ Busy(q) /\ lock[q] = "none"
        /\ Cur(q).on = "k" /\ Cur(q).do \in {"Lock", "RLock"}

\* the table as the calls leave it: the counters agree with the buckets
Consistent ==
    /\ count = Live
    /\ proxSize = CoreLen(proxLimit)
    /\ C1_NoGap
    /\ C2_CoreSize

C19_NodeIffMember ==
    \A a \in DOMAIN db : (db[a].node # <<>>) <=> ~Absent(a)

\* C20: DBCount never decreases; an On raises it by one when the address of
\* its node had no record and leaves it otherwise; an Off that returns
\* leaves every record in the registry.
C20_RecordsPersist ==
    [][/\ (DOMAIN db) \subseteq (DOMAIN db')
       /\ DBCount' >= DBCount
       /\ last'.op = "On" =>
             \E a \in PeerAddrs :
                /\ DOMAIN db' = (DOMAIN db) \cup {a}
                /\ DBCount' = IF a \in DOMAIN db THEN DBCount ELSE DBCount + 1
       /\ last'.op = "Off" => DOMAIN db' = DOMAIN db]_vars

\* an Off has removed a member whose record is still in the registry, next
\* to a record that Add has indexed for a peer that never joined
C20_Witness ==
    /\ last.op = "Off" /\ last.err = "nil" /\ last.found
    /\ \E a \in DOMAIN db : Absent(a) /\ db[a].node = <<>>
    /\ DBCount > count + 1
    /\ count = Live

(***************************************************************************)
(* Properties of the failures.                                             *)
(***************************************************************************)
\* C21: no On and no Off faults: each returns, with nil or with an error.
C21_NoFault == last.op \in {"On", "Off"} => last.err # "fault"

(***************************************************************************)
(* Properties of the scan of FindClosest.                                  *)
(***************************************************************************)
\* the scan ended before it had visited every bin
EarlyStop == last.op = "FindClosest" /\ Len(last.visited) < MaxProx + 1

\* min of FindClosest: max, or 1 when max is 0
MinPeers == IF last.max = 0 THEN 1 ELSE last.max

C23_MaxZeroReturnsCore ==
    (last.op = "FindClosest" /\ last.max = 0
        /\ proximityBin(last.target) >= proxLimit) =>
        \A x \in Nodes : Occ(last.nodes, x) = Occ(Flatten(buckets, proxLimit), x)

(***************************************************************************)
(* Properties of the per-bin counters.                                     *)
(***************************************************************************)
\* C24: an On increments the add counter of its bin once when it places its
\* node (appended or in the place of a member) and not otherwise; an Off
\* increments the remove counter of its bin once when it removes a member
\* and not otherwise.
C24_CountersTrackChanges ==
    /\ last.op = "On" => last.addInc = (IF last.err = "nil" THEN 1 ELSE 0)
    /\ last.op = "Off" => last.rmInc = (IF last.found THEN 1 ELSE 0)

(***************************************************************************)
(* Properties of the readers.                                              *)
(***************************************************************************)
\* C25: Suggest, FindClosest, KeyRange and Count leave every bucket, count,
\* proxLimit and proxSize as they were.
C25_ReadsLeaveTable ==
    [][last'.op \in ReadOps =>
          UNCHANGED <<buckets, count, proxLimit, proxSize>>]_vars

\* a Suggest that found a record has read a table with a core above bin 0
C25_Witness ==
    /\ last.op = "Suggest" /\ last.found
    /\ proxLimit > 0
    /\ count > 0

\* C26: Suggest never returns a record whose peer is a member of a bucket,
\* and it finds nothing when every record belongs to a connected peer.
C26_SuggestsDisconnected ==
    last.op = "Suggest" =>
        /\ last.found => Absent(last.record[1])
        /\ (\A a \in DOMAIN db : ~Absent(a)) => ~last.found

Replacing == last.op = "On" /\ last.err = "nil" /\ last.replaced # <<>>

\* C28: an On that replaces a member of a full bucket drops one peer, the
\* member with the largest idle time, which is above MaxIdleInterval; the
\* new peer takes its position; every other member, the length of every
\* bucket, proxLimit and proxSize stay as they were.
C28_ReplacementFrame ==
    [][(last'.op = "On" /\ Replacing') =>
          LET index == last'.index
              pos   == last'.pos
          IN  /\ Len(buckets[index]) = BucketSize
              /\ last'.replaced = <<buckets[index][pos]>>
              /\ last'.idle = last'.maxIdle
              /\ last'.idle > MaxIdleInterval
              /\ buckets'[index][pos] = last'.node
              /\ \A i \in Bins :
                    /\ Len(buckets'[i]) = Len(buckets[i])
                    /\ \A j \in DOMAIN buckets[i] :
                          <<i, j>> # <<index, pos>> =>
                              buckets'[i][j] = buckets[i][j]
              /\ UNCHANGED <<proxLimit, proxSize>>]_vars

\* the first member of a full bucket of a table with a core, idle for the
\* longest time a scan observes, was replaced by another peer
C28_Witness ==
    /\ Replacing
    /\ last.pos = 1
    /\ last.replaced[1] # last.node
    /\ last.maxIdle > MaxIdleInterval + 1
    /\ proxLimit > 0

\* C29: in every state proxSize is the number of peers in the buckets
\* proxLimit..MaxProx, whatever On, replacing On and Off calls came before,
\* an Off of a peer that is in no bucket included.
C29_ProxSizeExact == proxSize = CoreLen(proxLimit)

\* an Off of a peer that is in no bucket has returned, with a core above bin
\* 0 that holds more than ProxBinSize peers
C29_Witness ==
    /\ last.op = "Off" /\ ~last.found
    /\ proxLimit > 0
    /\ proxSize > ProxBinSize

\* C30: with ProxBinSize >= 1, proxLimit stays between 0 and MaxProx in
\* every state: the contraction never moves it past MaxProx, so that On
\* never reads a bucket that is not there, and the expansion never moves it
\* below 0.
C30_ProxLimitInRange ==
    /\ proxLimit \in 0 .. MaxProx
    /\ last.op = "On" => last.err # "fault"

\* an On has moved proxLimit up to MaxProx
C30_Witness ==
    /\ last.op = "On" /\ last.err = "nil"
    /\ proxLimit = MaxProx
    /\ proxSize >= ProxBinSize

(***************************************************************************)
(* Properties of the table under its callers' protocol.                    *)
(***************************************************************************)
RECURSIVE SumOver(_, _)
SumOver(f(_), S) ==
    IF S = {} THEN 0
    ELSE LET a == CHOOSE x \in S : TRUE IN f(a) + SumOver(f, S \ {a})

\* the dropped peers whose Off is still to come
PendingDropped == LET d(a) == owed[a].dropped IN SumOver(d, PeerAddrs)

\* C31: when every peer joins at most once and Off is called once for each
\* joined peer after it disconnects or is dropped, count is the number of
\* bucket members plus the number of dropped peers whose Off is still to
\* come, and count is never negative.
C31_CountUnderProtocol ==
    /\ count = Live + PendingDropped
    /\ count >= 0

\* C32: the Off of a peer that On has dropped removes only that peer: when
\* another peer with the same address has joined in the meantime and is in
\* its bucket, the late Off leaves every bucket as it is and leaves the
\* record of the address with the node it has.
C32_LateOffKeepsNewPeer ==
    [][\A a \in PeerAddrs :
          (/\ last'.op = "Off"
           /\ owed'[a].dropped < owed[a].dropped
           /\ ~Absent(a)) =>
              /\ buckets' = buckets
              /\ db'[a] = db[a]]_vars

(***************************************************************************)
(* Properties of Off for an address that has no record.                    *)
(***************************************************************************)
\* the caller is in an Off for an address that has no record
OffNoRecord(p) == pc[p].op = "Off" /\ Addr(pc[p].node) \notin DOMAIN db

AtOffCallback(p) ==
    /\ At(p, "Off", 3)
    /\ pc[p].cb # "none"
    /\ Addr(pc[p].node) \in DOMAIN db

Appends(r) ==
    /\ last'.op = "On" /\ last'.err = "nil" /\ last'.replaced = <<>>
    /\ Len(buckets'[r]) = Len(buckets[r]) + 1

\* the last member of bucket r after the step
Appended(r) == buckets'[r][Len(buckets'[r])]

\* C36: when an On appends a peer whose address is in no bucket and the Off
\* of the peer follows at once, every bucket, count, proxLimit and proxSize
\* are what they were before the On.
C36_JoinLeaveRoundTrip ==
    [][\A r \in Bins :
          (Appends(r) /\ Absent(Appended(r))) =>
              LET t == OffTable(buckets', proxLimit', proxSize', Appended(r))
              IN  /\ t.i > 0
                  /\ t.buckets = buckets
                  /\ t.proxLimit = proxLimit
                  /\ t.proxSize = proxSize
                  /\ Appended(r) \in DOMAIN db'
                  /\ (count' - 1) = count]_vars

\* an On has appended a peer and left a core above bin 0 in which a peer,
\* the only one of its address and the last of its bucket, is such that its
\* Off lowers proxLimit again
C36_Witness ==
    /\ last.op = "On" /\ last.err = "nil" /\ last.replaced = <<>>
    /\ proxLimit > 0
    /\ \E r \in Bins :
          /\ r >= proxLimit
          /\ Len(buckets[r]) > 0
          /\ LET node == buckets[r][Len(buckets[r])]
             IN  /\ Occ(AllPeers, node) = 1
                 /\ OffTable(buckets, proxLimit, proxSize, node).proxLimit < proxLimit

\* C37: an On that appends a peer to a bin below proxLimit leaves proxLimit
\* and proxSize as they were, and so does an Off that removes a peer from a
\* bin below proxLimit and leaves the bin non-empty.
C37_BelowCoreFrame ==
    [][\A r \in Bins :
          /\ (Appends(r) /\ r < proxLimit) =>
                 UNCHANGED <<proxLimit, proxSize>>
          /\ (/\ last'.op = "Off"
              /\ Len(buckets'[r]) = Len(buckets[r]) - 1
              /\ r < proxLimit
              /\ Len(buckets'[r]) > 0) =>
                 UNCHANGED <<proxLimit, proxSize>>]_vars

\* an Off has taken a peer from a bin below proxLimit that still has a peer
C37_Witness ==
    /\ last.op = "Off" /\ last.found
    /\ proxLimit > 0
    /\ \E r \in Bins : r < proxLimit /\ Len(buckets[r]) = BucketSize - 1

\* C38: an Off that empties a bin r below proxLimit lowers proxLimit to r,
\* and proxSize becomes the number of peers in the buckets r..MaxProx.
C38_GapClosedAtBin ==
    [][\A r \in Bins :
          (/\ last'.op = "Off"
           /\ Len(buckets[r]) = 1
           /\ Len(buckets'[r]) = 0
           /\ r < proxLimit) =>
              /\ proxLimit' = r
              /\ proxSize' = SumLen(buckets', r)]_vars

\* an Off has emptied a bin above bin 0 and left proxLimit at it, with
\* ProxBinSize peers or more in the buckets above
C38_Witness ==
    /\ last.op = "Off" /\ last.found
    /\ proxLimit >= 1
    /\ Len(buckets[proxLimit]) = 0
    /\ CoreLen(proxLimit + 1) >= ProxBinSize

\* an On that has raised proxLimit by two bins or more
RaisedByTwo ==
    /\ last.op = "On" /\ last.err = "nil" /\ last.replaced = <<>>
    /\ last.raised >= 2

\* C39: one On can raise proxLimit by more than one bin, and after such an
\* On every bucket below proxLimit is non-empty and the core holds at least
\* ProxBinSize peers.
C39_DoubleContractionSound ==
    RaisedByTwo => (C1_NoGap /\ C2_CoreSize /\ C29_ProxSizeExact)

\* an On into the empty bin 0 has raised proxLimit from 0 to 2 or above
C39_Witness ==
    /\ RaisedByTwo
    /\ proxLimit = last.raised
    /\ Len(buckets[0]) = 1

(***************************************************************************)
(* Properties of the order of the scan of FindClosest.                     *)
(***************************************************************************)
\* the bins in the order po, po + 1, ..., MaxProx, po - 1, ..., 0
ScanOrder(po) ==
    [k \in 1 .. MaxProx + 1 |->
        IF k <= MaxProx - po + 1 THEN po + k - 1 ELSE MaxProx + 1 - k]

\* C40: FindClosest ends for every target, every max and every table, the
\* empty one included, for which it returns the empty sequence; it visits
\* the bins in the order po, po + 1, ..., MaxProx, po - 1, ..., 0, each at
\* most once, and no peer is in the result more often than in the table.
C40_ScanEndsInOrder ==
    last.op = "FindClosest" =>
        /\ Len(last.visited) \in 1 .. MaxProx + 1
        /\ \A k \in DOMAIN last.visited :
               last.visited[k] = ScanOrder(proximityBin(last.target))[k]
        /\ Live = 0 => (last.nodes = <<>> /\ Len(last.visited) = MaxProx + 1)
        /\ \A x \in Nodes : Occ(last.nodes, x) <= Occ(AllPeers, x)

\* FindClosest has returned the empty sequence for the empty table after it
\* went up from a bin between 0 and MaxProx, turned and went down to bin 0
C40_Witness ==
    /\ last.op = "FindClosest"
    /\ Live = 0
    /\ last.nodes = <<>>
    /\ proximityBin(last.target) \in 1 .. MaxProx - 1
    /\ last.visited = ScanOrder(proximityBin(last.target))

====
